---- MODULE Spec2Model ----
(***************************************************************************)
(* Model of the in-memory IPv4 allocator of src/src/ippool.rs (IpPool).    *)
(*                                                                         *)
(* Strings that denote addresses are modelled as the sequence of their     *)
(* dot-separated decimal fields: "10.0.0.2" is <<10, 0, 0, 2>>, the        *)
(* network prefix "10.0.0" is <<10, 0, 0>>, and format!("{}.{}", p, i) is  *)
(* Append(p, i).  A text with a field above 255 or with a number of fields *)
(* other than four does not parse as an Ipv4Addr.  Owner ids "vm-i" are    *)
(* modelled as the number i.  A HashMap is a function whose DOMAIN is its  *)
(* key set.                                                                *)
(***************************************************************************)
EXTENDS Naturals, Sequences, FiniteSets, TLC

\* ------------------------------------------------------------------ bounds
\* IpPool::new sets start = 2 and end = 254; the model keeps start and
\* scales end down so that the pool can be exhausted.
start == 2
end == 4
\* Owner ids are vm-1 .. vm-NumVms (one more owner than the pool has addresses).
NumVms == 4
\* Concurrent callers (request-handling tasks) of the shared pool.
NumProcs == 3

VmIds == 1..NumVms
Procs == 1..NumProcs

\* ------------------------------------------------------- pool configuration
\* Args.network / Args.gateway: the constructor inputs.
network == <<10, 0, 0>>
gateway == <<10, 0, 0, 1>>

\* format!("{}.{}", prefix, i)
format(prefix, i) == Append(prefix, i)

\* The addresses of the configured range, in the order new() and clear() push them.
RECURSIVE InitialAvailable(_, _)
InitialAvailable(lo, hi) ==
    IF lo > hi THEN <<>> ELSE <<format(network, lo)>> \o InitialAvailable(lo + 1, hi)

Range == {format(network, i) : i \in start..end}

\* Texts a caller can pass to release_ip_by_address: every address of the /24
\* of the pool and a little beyond (hosts 0, 1, end+1, 255 carry the prefix
\* but are outside the host range), an address of another network, a text
\* with an octet above 255, and texts with three and with five fields.
HostInputs == (0..(end + 1)) \cup {255}
IpInputs ==
    {format(network, h) : h \in HostInputs}
        \cup {<<10, 0, 1, 2>>, <<300, 1, 1, 1>>, <<10, 0, 0, 300>>,
              <<10, 0, 0>>, <<10, 0, 0, 2, 5>>}

\* ip.parse::<Ipv4Addr>().is_ok()
ParsesAsIpv4(ip) == Len(ip) = 4 /\ \A k \in 1..4 : ip[k] \in 0..255

\* ip.starts_with(&format!("{}.", network))
starts_with(ip, prefix) ==
    Len(ip) > Len(prefix) /\ SubSeq(ip, 1, Len(prefix)) = prefix

\* is_valid_ip without the prefix check.
is_valid_ip_parse_only(net, ip) == ParsesAsIpv4(ip)

is_valid_ip(net, ip) ==
    IF ~ParsesAsIpv4(ip) THEN FALSE ELSE starts_with(ip, net)

\* ------------------------------------------------------------------- state
VARIABLES
    allocated,   \* IpPoolInner.allocated: IP -> VM_ID
    vm_to_ip,    \* IpPoolInner.vm_to_ip:  VM_ID -> IP
    available,   \* IpPoolInner.available: Vec<String>
    ret,         \* the call made by the last step of Spec and what it returned
    granted,     \* history: owner -> the address allocate returned to it, kept
                 \* until that owner or that address is released or the pool reset
    again,       \* history: the owners that called allocate again while granted
    lock,        \* the RwLock: its writer (0: none) and its readers
    pc,          \* per task: where it is in its call
    call,        \* per task: the operation and its argument
    tmp,         \* per task: the local `ip` / `vm_id` of the call
    res          \* per task: what its call returned

pool == <<allocated, vm_to_ip, available>>
tasks == <<lock, pc, call, tmp, res>>
seq == <<ret, granted, again>>
vars == <<allocated, vm_to_ip, available, ret, granted, again, lock, pc, call, tmp, res>>

\* HashMap::insert, HashMap::remove, Vec::push, Vec::remove(0)
EmptyMap == [k \in {} |-> 0]
insert(m, k, v) == [x \in (DOMAIN m) \cup {k} |-> IF x = k THEN v ELSE m[x]]
remove(m, k) == [x \in (DOMAIN m) \ {k} |-> m[x]]
push(v, x) == Append(v, x)

NoIp == <<>>
NoVm == 0
NoLocals == [ip |-> NoIp, vm |-> NoVm]

\* A request: the operation, its owner id or address text, and the hostname
\* of an AllocateIpRequest ("None" when the request carries none).
Call(op, vm, addr, hostname) == [op |-> op, vm |-> vm, addr |-> addr, hostname |-> hostname]

\* What a call returned: Ok(ip), Ok(()), Ok(list), Ok(stats) or Err(e).
Result(op, vm, addr, ok, ip, err, list, stats) ==
    [op |-> op, vm |-> vm, addr |-> addr, ok |-> ok, ip |-> ip, err |-> err,
     list |-> list, stats |-> stats]
NoStats == [total |-> 0, allocated |-> 0, available |-> 0]
OkIp(op, vm, ip) == Result(op, vm, NoIp, TRUE, ip, "", {}, NoStats)
OkUnit(op, vm, addr) == Result(op, vm, addr, TRUE, NoIp, "", {}, NoStats)
Err(op, vm, addr, e) == Result(op, vm, addr, FALSE, NoIp, e, {}, NoStats)
NoResult == Result("none", NoVm, NoIp, TRUE, NoIp, "", {}, NoStats)

\* get_stats: total, allocated and available counts.
get_stats ==
    [total |-> (end - start) + 1,
     allocated |-> Cardinality(DOMAIN allocated),
     available |-> Len(available)]

\* An IpAllocation that carries a hostname.
IpAllocation_with_hostname(ip, vm_id) == [ip |-> ip, vm_id |-> vm_id, hostname |-> "web"]

\* IpAllocation { ip, vm_id, hostname: None }, as the pool builds it.
IpAllocation(ip, vm_id) == [ip |-> ip, vm_id |-> vm_id, hostname |-> "None"]

\* Ok(IpAllocation): the allocation is the one element of `list`, its address
\* is repeated in `ip`.
OkAllocation(op, vm, ip) ==
    Result(op, vm, NoIp, TRUE, ip, "", {IpAllocation(ip, vm)}, NoStats)

\* list_allocations: one IpAllocation per entry of `allocated`, hostname None.
list_allocations ==
    {IpAllocation(a, allocated[a]) : a \in DOMAIN allocated}

\* --------------------------------------------------------------------- Init
Init ==
    /\ allocated = EmptyMap
    /\ vm_to_ip = EmptyMap
    /\ available = InitialAvailable(start, end)
    /\ ret = NoResult
    /\ granted = EmptyMap
    /\ again = {}
    /\ lock = [writer |-> 0, readers |-> {}]
    /\ pc = [p \in Procs |-> "idle"]
    /\ call = [p \in Procs |-> Call("none", NoVm, NoIp, "None")]
    /\ tmp = [p \in Procs |-> NoLocals]
    /\ res = [p \in Procs |-> NoResult]

\* ------------------------------------------- operations, each one atomic step
\* (every operation runs from lock acquisition to return under the pool's lock)
\* allocate_ip without the "already has an IP" early return.
allocate_ip_not_idempotent(vm_id) ==
    /\ IF available = <<>>
       THEN /\ ret' = Err("allocate", vm_id, NoIp, "NoAvailableIps")
            /\ UNCHANGED pool
       ELSE LET ip == Head(available) IN
            /\ available' = Tail(available)
            /\ allocated' = insert(allocated, ip, vm_id)
            /\ vm_to_ip' = insert(vm_to_ip, vm_id, ip)
            /\ ret' = OkIp("allocate", vm_id, ip)
    /\ UNCHANGED tasks

\* allocate_ip with its two checks in the other order.
allocate_ip_empty_check_first(vm_id) ==
    /\ IF available = <<>>
       THEN /\ ret' = Err("allocate", vm_id, NoIp, "NoAvailableIps")
            /\ UNCHANGED pool
       ELSE IF vm_id \in DOMAIN vm_to_ip
       THEN /\ ret' = OkIp("allocate", vm_id, vm_to_ip[vm_id])
            /\ UNCHANGED pool
       ELSE LET ip == Head(available) IN
            /\ available' = Tail(available)
            /\ allocated' = insert(allocated, ip, vm_id)
            /\ vm_to_ip' = insert(vm_to_ip, vm_id, ip)
            /\ ret' = OkIp("allocate", vm_id, ip)
    /\ UNCHANGED tasks

allocate_ip(vm_id) ==
    /\ IF vm_id \in DOMAIN vm_to_ip
       THEN /\ ret' = OkIp("allocate", vm_id, vm_to_ip[vm_id])
            /\ UNCHANGED pool
       ELSE IF available = <<>>
       THEN /\ ret' = Err("allocate", vm_id, NoIp, "NoAvailableIps")
            /\ UNCHANGED pool
       ELSE LET ip == Head(available) IN
            /\ available' = Tail(available)
            /\ allocated' = insert(allocated, ip, vm_id)
            /\ vm_to_ip' = insert(vm_to_ip, vm_id, ip)
            /\ ret' = OkIp("allocate", vm_id, ip)
    /\ UNCHANGED tasks

\* The writes of release_ip with the address pushed at the front
\* (`available.insert(0, ip)`).
release_ip_effect_push_front(vm_id) ==
    LET ip == vm_to_ip[vm_id] IN
    /\ allocated' = remove(allocated, ip)
    /\ vm_to_ip' = remove(vm_to_ip, vm_id)
    /\ available' = <<ip>> \o available

\* The writes of release_ip once the owner's address is found.
release_ip_effect(vm_id) ==
    LET ip == vm_to_ip[vm_id] IN
    /\ allocated' = remove(allocated, ip)
    /\ vm_to_ip' = remove(vm_to_ip, vm_id)
    /\ available' = push(available, ip)

\* The writes of release_ip_by_address with the address pushed at the front.
release_ip_by_address_effect_push_front(ip) ==
    LET vm_id == allocated[ip] IN
    /\ allocated' = remove(allocated, ip)
    /\ vm_to_ip' = remove(vm_to_ip, vm_id)
    /\ available' = <<ip>> \o available

\* The writes of release_ip_by_address once the address's owner is found.
release_ip_by_address_effect(ip) ==
    LET vm_id == allocated[ip] IN
    /\ allocated' = remove(allocated, ip)
    /\ vm_to_ip' = remove(vm_to_ip, vm_id)
    /\ available' = push(available, ip)

\* release_ip without `inner.allocated.remove(&ip)`.
release_ip_keeps_allocated(vm_id) ==
    /\ IF vm_id \notin DOMAIN vm_to_ip
       THEN /\ ret' = Err("release", vm_id, NoIp, "IpNotFound")
            /\ UNCHANGED pool
       ELSE LET ip == vm_to_ip[vm_id] IN
            /\ allocated' = allocated
            /\ vm_to_ip' = remove(vm_to_ip, vm_id)
            /\ available' = push(available, ip)
            /\ ret' = OkUnit("release", vm_id, NoIp)
    /\ UNCHANGED tasks

\* release_ip without `inner.available.push(ip)`.
release_ip_no_push(vm_id) ==
    /\ IF vm_id \notin DOMAIN vm_to_ip
       THEN /\ ret' = Err("release", vm_id, NoIp, "IpNotFound")
            /\ UNCHANGED pool
       ELSE LET ip == vm_to_ip[vm_id] IN
            /\ allocated' = remove(allocated, ip)
            /\ vm_to_ip' = remove(vm_to_ip, vm_id)
            /\ available' = available
            /\ ret' = OkUnit("release", vm_id, NoIp)
    /\ UNCHANGED tasks

release_ip(vm_id) ==
    /\ IF vm_id \notin DOMAIN vm_to_ip
       THEN /\ ret' = Err("release", vm_id, NoIp, "IpNotFound")
            /\ UNCHANGED pool
       ELSE /\ release_ip_effect(vm_id)
            /\ ret' = OkUnit("release", vm_id, NoIp)
    /\ UNCHANGED tasks

\* release_ip_by_address without `inner.vm_to_ip.remove(&vm_id)`.
release_ip_by_address_keeps_vm(ip) ==
    /\ IF ~is_valid_ip(network, ip)
       THEN /\ ret' = Err("release_by_address", NoVm, ip, "InvalidIp")
            /\ UNCHANGED pool
       ELSE IF ip \notin DOMAIN allocated
       THEN /\ ret' = Err("release_by_address", NoVm, ip, "IpNotFound")
            /\ UNCHANGED pool
       ELSE /\ allocated' = remove(allocated, ip)
            /\ vm_to_ip' = vm_to_ip
            /\ available' = push(available, ip)
            /\ ret' = OkUnit("release_by_address", NoVm, ip)
    /\ UNCHANGED tasks

\* release_ip_by_address pushing the address before it looks the allocation up.
release_ip_by_address_push_first(ip) ==
    /\ IF ~is_valid_ip(network, ip)
       THEN /\ ret' = Err("release_by_address", NoVm, ip, "InvalidIp")
            /\ UNCHANGED pool
       ELSE IF ip \notin DOMAIN allocated
       THEN /\ ret' = Err("release_by_address", NoVm, ip, "IpNotFound")
            /\ available' = push(available, ip)
            /\ UNCHANGED <<allocated, vm_to_ip>>
       ELSE LET vm_id == allocated[ip] IN
            /\ allocated' = remove(allocated, ip)
            /\ vm_to_ip' = remove(vm_to_ip, vm_id)
            /\ available' = push(available, ip)
            /\ ret' = OkUnit("release_by_address", NoVm, ip)
    /\ UNCHANGED tasks

release_ip_by_address(ip) ==
    /\ IF ~is_valid_ip(network, ip)
       THEN /\ ret' = Err("release_by_address", NoVm, ip, "InvalidIp")
            /\ UNCHANGED pool
       ELSE IF ip \notin DOMAIN allocated
       THEN /\ ret' = Err("release_by_address", NoVm, ip, "IpNotFound")
            /\ UNCHANGED pool
       ELSE /\ release_ip_by_address_effect(ip)
            /\ ret' = OkUnit("release_by_address", NoVm, ip)
    /\ UNCHANGED tasks

get_allocation(vm_id) ==
    /\ IF vm_id \notin DOMAIN vm_to_ip
       THEN ret' = Err("get_allocation", vm_id, NoIp, "IpNotFound")
       ELSE ret' = OkAllocation("get_allocation", vm_id, vm_to_ip[vm_id])
    /\ UNCHANGED pool
    /\ UNCHANGED tasks

list_allocations_call ==
    /\ ret' = Result("list_allocations", NoVm, NoIp, TRUE, NoIp, "", list_allocations, NoStats)
    /\ UNCHANGED pool
    /\ UNCHANGED tasks

get_stats_call ==
    /\ ret' = Result("get_stats", NoVm, NoIp, TRUE, NoIp, "", {}, get_stats)
    /\ UNCHANGED pool
    /\ UNCHANGED tasks

\* clear without `inner.available.clear()`.
clear_keeps_available ==
    /\ allocated' = EmptyMap
    /\ vm_to_ip' = EmptyMap
    /\ available' = available \o InitialAvailable(start, end)
    /\ ret' = OkUnit("clear", NoVm, NoIp)
    /\ UNCHANGED tasks

clear ==
    /\ allocated' = EmptyMap
    /\ vm_to_ip' = EmptyMap
    /\ available' = InitialAvailable(start, end)
    /\ ret' = OkUnit("clear", NoVm, NoIp)
    /\ UNCHANGED tasks

\* The history variables follow what the calls returned, never the pool's maps.
Observe ==
    LET r == ret' IN
    IF r.op = "allocate" /\ r.ok
    THEN /\ granted' = insert(granted, r.vm, r.ip)
         /\ again' = IF r.vm \in DOMAIN granted THEN again \cup {r.vm} ELSE again
    ELSE IF r.op = "release" /\ r.ok
    THEN /\ granted' = remove(granted, r.vm)
         /\ again' = again \ {r.vm}
    ELSE IF r.op = "release_by_address" /\ r.ok
    THEN LET gone == {o \in DOMAIN granted : granted[o] = r.addr} IN
         /\ granted' = [o \in (DOMAIN granted) \ gone |-> granted[o]]
         /\ again' = again \ gone
    ELSE IF r.op = "clear"
    THEN /\ granted' = EmptyMap
         /\ again' = {}
    ELSE UNCHANGED <<granted, again>>

\* One call by one caller, its argument any owner id or any address text.
Allocate == \E vm_id \in VmIds : allocate_ip(vm_id) /\ Observe
Release == \E vm_id \in VmIds : release_ip(vm_id) /\ Observe
ReleaseByAddress == \E ip \in IpInputs : release_ip_by_address(ip) /\ Observe
GetAllocation == \E vm_id \in VmIds : get_allocation(vm_id) /\ Observe
ListAllocations == list_allocations_call /\ Observe
GetStats == get_stats_call /\ Observe
Clear == clear /\ Observe

Next ==
    \/ Allocate
    \/ Release
    \/ ReleaseByAddress
    \/ GetAllocation
    \/ ListAllocations
    \/ GetStats
    \/ Clear

Spec == Init /\ [][Next]_vars

\* ------------------------------------------------- the pool shared by tasks
\* Each task makes one call.  A call waits for the RwLock, runs the statements
\* of its function one per step while holding it, and drops the guard when it
\* returns.  The pool's fields change one statement at a time.
WriteOps == {"allocate", "release", "release_by_address", "clear"}
ReadOps == {"get_allocation", "list_allocations", "get_stats"}

\* The tasks' arguments: as many owner ids as there are tasks, as address
\* texts the addresses of the range, the gateway and a text that is no IPv4
\* literal, and an allocate request with and without a hostname.  The
\* handler passes req.vm_id alone to the pool.
TaskVmIds == 1..NumProcs
TaskIpInputs == InitialAvailable(start, end) \o <<gateway, <<300, 1, 1, 1>>>>

\* Every call a task can make, enumerated.
CallSeq ==
    [v \in TaskVmIds |-> Call("allocate", v, NoIp, "None")]
        \o [v \in TaskVmIds |-> Call("allocate", v, NoIp, "web")]
        \o [v \in TaskVmIds |-> Call("release", v, NoIp, "None")]
        \o [k \in DOMAIN TaskIpInputs |->
              Call("release_by_address", NoVm, TaskIpInputs[k], "None")]
        \o [v \in TaskVmIds |-> Call("get_allocation", v, NoIp, "None")]
        \o << Call("list_allocations", NoVm, NoIp, "None"),
              Call("get_stats", NoVm, NoIp, "None"),
              Call("clear", NoVm, NoIp, "None") >>
Rank(c) == CHOOSE k \in DOMAIN CallSeq : CallSeq[k] = c

\* Tasks are interchangeable (each is a handler holding a clone of the same
\* pool), so they are numbered by their calls: of two tasks the one with the
\* lower number makes the call that comes first in CallSeq.  Every run of any
\* set of calls, in any order in time, is a run of the tasks so numbered.
Numbered(p, k) ==
    \A q \in Procs :
        pc[q] # "idle" =>
            /\ q < p => Rank(call[q]) <= k
            /\ q > p => k <= Rank(call[q])

FirstStep(op) ==
    CASE op = "allocate" -> "alloc_check"
      [] op = "release" -> "rel_lookup"
      [] op = "release_by_address" -> "rba_validate"
      [] op = "clear" -> "clear_allocated"
      [] op = "get_allocation" -> "get_read"
      [] op = "list_allocations" -> "list_read"
      [] op = "get_stats" -> "stats_read"

\* A handler calls into the pool.
Invoke(p) ==
    /\ pc[p] = "idle"
    /\ \E k \in DOMAIN CallSeq :
          /\ Numbered(p, k)
          /\ call' = [call EXCEPT ![p] = CallSeq[k]]
    /\ pc' = [pc EXCEPT ![p] = "wait"]
    /\ UNCHANGED <<pool, seq, lock, tmp, res>>

\* self.inner.write().await: with no guard taken by anyone else.
acquire_write(p) ==
    /\ pc[p] = "wait"
    /\ call[p].op \in WriteOps
    /\ lock.writer = 0
    /\ lock.readers = {}
    /\ lock' = [lock EXCEPT !.writer = p]
    /\ pc' = [pc EXCEPT ![p] = FirstStep(call[p].op)]
    /\ UNCHANGED <<pool, seq, call, tmp, res>>

\* self.inner.read().await taken although a writer holds the lock.
acquire_read_ignores_writer(p) ==
    /\ pc[p] = "wait"
    /\ call[p].op \in ReadOps
    /\ lock' = [lock EXCEPT !.readers = @ \cup {p}]
    /\ pc' = [pc EXCEPT ![p] = FirstStep(call[p].op)]
    /\ UNCHANGED <<pool, seq, call, tmp, res>>

\* self.inner.read().await: with no write guard taken.
acquire_read(p) ==
    /\ pc[p] = "wait"
    /\ call[p].op \in ReadOps
    /\ lock.writer = 0
    /\ lock' = [lock EXCEPT !.readers = @ \cup {p}]
    /\ pc' = [pc EXCEPT ![p] = FirstStep(call[p].op)]
    /\ UNCHANGED <<pool, seq, call, tmp, res>>

\* The function returns r: its guard and its locals are dropped.
Return(p, r) ==
    /\ res' = [res EXCEPT ![p] = r]
    /\ pc' = [pc EXCEPT ![p] = "done"]
    /\ lock' = [writer |-> IF lock.writer = p THEN 0 ELSE lock.writer,
                readers |-> lock.readers \ {p}]
    /\ tmp' = [tmp EXCEPT ![p] = NoLocals]

Goto(p, label) ==
    /\ pc' = [pc EXCEPT ![p] = label]
    /\ UNCHANGED <<lock, res>>

\* allocate_ip without the `if let Some(ip) = inner.vm_to_ip.get(&vm_id)` check.
alloc_check_not_idempotent(p) ==
    /\ pc[p] = "alloc_check"
    /\ LET vm_id == call[p].vm IN
       IF available = <<>>
       THEN Return(p, Err("allocate", vm_id, NoIp, "NoAvailableIps"))
       ELSE Goto(p, "alloc_take") /\ tmp' = tmp
    /\ UNCHANGED <<pool, seq, call>>

\* allocate_ip, the two checks
alloc_check(p) ==
    /\ pc[p] = "alloc_check"
    /\ LET vm_id == call[p].vm IN
       IF vm_id \in DOMAIN vm_to_ip
       THEN Return(p, OkIp("allocate", vm_id, vm_to_ip[vm_id]))
       ELSE IF available = <<>>
       THEN Return(p, Err("allocate", vm_id, NoIp, "NoAvailableIps"))
       ELSE Goto(p, "alloc_take") /\ tmp' = tmp
    /\ UNCHANGED <<pool, seq, call>>

\* `let ip = inner.available[0].clone()`: the head is read and left in place.
alloc_take_keeps_head(p) ==
    /\ pc[p] = "alloc_take"
    /\ tmp' = [tmp EXCEPT ![p].ip = Head(available)]
    /\ Goto(p, "alloc_mark")
    /\ UNCHANGED <<pool, seq, call>>

\* let ip = inner.available.remove(0)
alloc_take(p) ==
    /\ pc[p] = "alloc_take"
    /\ tmp' = [tmp EXCEPT ![p].ip = Head(available)]
    /\ available' = Tail(available)
    /\ Goto(p, "alloc_mark")
    /\ UNCHANGED <<allocated, vm_to_ip, seq, call>>

\* inner.allocated.insert(ip, vm_id)
alloc_mark(p) ==
    /\ pc[p] = "alloc_mark"
    /\ allocated' = insert(allocated, tmp[p].ip, call[p].vm)
    /\ Goto(p, "alloc_map")
    /\ UNCHANGED <<vm_to_ip, available, seq, call, tmp>>

\* inner.vm_to_ip.insert(vm_id, ip); Ok(ip)
alloc_map(p) ==
    /\ pc[p] = "alloc_map"
    /\ vm_to_ip' = insert(vm_to_ip, call[p].vm, tmp[p].ip)
    /\ Return(p, OkIp("allocate", call[p].vm, tmp[p].ip))
    /\ UNCHANGED <<allocated, available, seq, call>>

\* release_ip returning IpNotFound with its write guard never dropped.
rel_lookup_keeps_guard(p) ==
    /\ pc[p] = "rel_lookup"
    /\ LET vm_id == call[p].vm IN
       IF vm_id \notin DOMAIN vm_to_ip
       THEN /\ res' = [res EXCEPT ![p] = Err("release", vm_id, NoIp, "IpNotFound")]
            /\ pc' = [pc EXCEPT ![p] = "done"]
            /\ UNCHANGED <<lock, tmp>>
       ELSE /\ tmp' = [tmp EXCEPT ![p].ip = vm_to_ip[vm_id]]
            /\ Goto(p, "rel_allocated")
    /\ UNCHANGED <<pool, seq, call>>

\* release_ip: inner.vm_to_ip.get(vm_id).ok_or(IpNotFound)?
rel_lookup(p) ==
    /\ pc[p] = "rel_lookup"
    /\ LET vm_id == call[p].vm IN
       IF vm_id \notin DOMAIN vm_to_ip
       THEN Return(p, Err("release", vm_id, NoIp, "IpNotFound"))
       ELSE /\ tmp' = [tmp EXCEPT ![p].ip = vm_to_ip[vm_id]]
            /\ Goto(p, "rel_allocated")
    /\ UNCHANGED <<pool, seq, call>>

\* inner.allocated.remove(&ip)
rel_allocated(p) ==
    /\ pc[p] = "rel_allocated"
    /\ allocated' = remove(allocated, tmp[p].ip)
    /\ Goto(p, "rel_vm")
    /\ UNCHANGED <<vm_to_ip, available, seq, call, tmp>>

\* inner.vm_to_ip.remove(vm_id)
rel_vm(p) ==
    /\ pc[p] = "rel_vm"
    /\ vm_to_ip' = remove(vm_to_ip, call[p].vm)
    /\ Goto(p, "rel_push")
    /\ UNCHANGED <<allocated, available, seq, call, tmp>>

\* inner.available.push(ip); Ok(())
rel_push(p) ==
    /\ pc[p] = "rel_push"
    /\ available' = push(available, tmp[p].ip)
    /\ Return(p, OkUnit("release", call[p].vm, NoIp))
    /\ UNCHANGED <<allocated, vm_to_ip, seq, call>>

\* release_ip_by_address: the is_valid_ip check
rba_validate(p) ==
    /\ pc[p] = "rba_validate"
    /\ IF ~is_valid_ip(network, call[p].addr)
       THEN Return(p, Err("release_by_address", NoVm, call[p].addr, "InvalidIp"))
       ELSE Goto(p, "rba_lookup") /\ tmp' = tmp
    /\ UNCHANGED <<pool, seq, call>>

\* release_ip_by_address going on without an owner when the address is not
\* allocated (`.cloned().unwrap_or_default()` in place of `.ok_or(...)?.clone()`).
rba_lookup_unchecked(p) ==
    /\ pc[p] = "rba_lookup"
    /\ LET ip == call[p].addr IN
       /\ tmp' = [tmp EXCEPT ![p].vm = IF ip \in DOMAIN allocated THEN allocated[ip] ELSE NoVm]
       /\ Goto(p, "rba_allocated")
    /\ UNCHANGED <<pool, seq, call>>

\* inner.allocated.get(ip).ok_or(IpNotFound)?
rba_lookup(p) ==
    /\ pc[p] = "rba_lookup"
    /\ LET ip == call[p].addr IN
       IF ip \notin DOMAIN allocated
       THEN Return(p, Err("release_by_address", NoVm, ip, "IpNotFound"))
       ELSE /\ tmp' = [tmp EXCEPT ![p].vm = allocated[ip]]
            /\ Goto(p, "rba_allocated")
    /\ UNCHANGED <<pool, seq, call>>

\* inner.allocated.remove(ip)
rba_allocated(p) ==
    /\ pc[p] = "rba_allocated"
    /\ allocated' = remove(allocated, call[p].addr)
    /\ Goto(p, "rba_vm")
    /\ UNCHANGED <<vm_to_ip, available, seq, call, tmp>>

\* inner.vm_to_ip.remove(&vm_id)
rba_vm(p) ==
    /\ pc[p] = "rba_vm"
    /\ vm_to_ip' = remove(vm_to_ip, tmp[p].vm)
    /\ Goto(p, "rba_push")
    /\ UNCHANGED <<allocated, available, seq, call, tmp>>

\* inner.available.push(ip.to_string()); Ok(())
rba_push(p) ==
    /\ pc[p] = "rba_push"
    /\ available' = push(available, call[p].addr)
    /\ Return(p, OkUnit("release_by_address", NoVm, call[p].addr))
    /\ UNCHANGED <<allocated, vm_to_ip, seq, call>>

\* clear: inner.allocated.clear()
clear_allocated(p) ==
    /\ pc[p] = "clear_allocated"
    /\ allocated' = EmptyMap
    /\ Goto(p, "clear_vm")
    /\ UNCHANGED <<vm_to_ip, available, seq, call, tmp>>

\* inner.vm_to_ip.clear()
clear_vm(p) ==
    /\ pc[p] = "clear_vm"
    /\ vm_to_ip' = EmptyMap
    /\ Goto(p, "clear_available")
    /\ UNCHANGED <<allocated, available, seq, call, tmp>>

\* inner.available.clear(), and the loop variable set to inner.start
clear_available(p) ==
    /\ pc[p] = "clear_available"
    /\ available' = <<>>
    /\ tmp' = [tmp EXCEPT ![p].vm = start]
    /\ Goto(p, "clear_refill")
    /\ UNCHANGED <<allocated, vm_to_ip, seq, call>>

\* for i in inner.start..=inner.end { inner.available.push(format!(...)) }:
\* one iteration, or the end of the loop and the return.  The loop variable
\* is kept in tmp[p].vm.
clear_refill(p) ==
    /\ pc[p] = "clear_refill"
    /\ LET i == tmp[p].vm IN
       IF i <= end
       THEN /\ available' = push(available, format(network, i))
            /\ tmp' = [tmp EXCEPT ![p].vm = i + 1]
            /\ Goto(p, "clear_refill")
       ELSE /\ Return(p, OkUnit("clear", NoVm, NoIp))
            /\ UNCHANGED available
    /\ UNCHANGED <<allocated, vm_to_ip, seq, call>>

\* get_allocation under the read guard
get_read(p) ==
    /\ pc[p] = "get_read"
    /\ LET vm_id == call[p].vm IN
       IF vm_id \notin DOMAIN vm_to_ip
       THEN Return(p, Err("get_allocation", vm_id, NoIp, "IpNotFound"))
       ELSE Return(p, OkAllocation("get_allocation", vm_id, vm_to_ip[vm_id]))
    /\ UNCHANGED <<pool, seq, call>>

\* list_allocations under the read guard
list_read(p) ==
    /\ pc[p] = "list_read"
    /\ Return(p, Result("list_allocations", NoVm, NoIp, TRUE, NoIp, "", list_allocations, NoStats))
    /\ UNCHANGED <<pool, seq, call>>

\* get_stats under the read guard
stats_read(p) ==
    /\ pc[p] = "stats_read"
    /\ Return(p, Result("get_stats", NoVm, NoIp, TRUE, NoIp, "", {}, get_stats))
    /\ UNCHANGED <<pool, seq, call>>

NextTasks ==
    \E p \in Procs :
        \/ Invoke(p)
        \/ acquire_write(p)
        \/ acquire_read(p)
        \/ alloc_check(p)
        \/ alloc_take(p)
        \/ alloc_mark(p)
        \/ alloc_map(p)
        \/ rel_lookup(p)
        \/ rel_allocated(p)
        \/ rel_vm(p)
        \/ rel_push(p)
        \/ rba_validate(p)
        \/ rba_lookup(p)
        \/ rba_allocated(p)
        \/ rba_vm(p)
        \/ rba_push(p)
        \/ clear_allocated(p)
        \/ clear_vm(p)
        \/ clear_available(p)
        \/ clear_refill(p)
        \/ get_read(p)
        \/ list_read(p)
        \/ stats_read(p)

SpecTasks == Init /\ [][NextTasks]_vars

\* What task p does once it has called: take the lock, run a statement.
Step(p) ==
    \/ acquire_write(p)
    \/ acquire_read(p)
    \/ alloc_check(p)
    \/ alloc_take(p)
    \/ alloc_mark(p)
    \/ alloc_map(p)
    \/ rel_lookup(p)
    \/ rel_allocated(p)
    \/ rel_vm(p)
    \/ rel_push(p)
    \/ rba_validate(p)
    \/ rba_lookup(p)
    \/ rba_allocated(p)
    \/ rba_vm(p)
    \/ rba_push(p)
    \/ clear_allocated(p)
    \/ clear_vm(p)
    \/ clear_available(p)
    \/ clear_refill(p)
    \/ get_read(p)
    \/ list_read(p)
    \/ stats_read(p)

\* The tasks under the runtime's scheduling: a task that can run is run, and
\* a task that waits for the lock is given it once the lock stays free (the
\* callers being finitely many, each with one call, the lock cannot be taken
\* from a waiting task for ever).  Nothing obliges a handler to call.
SpecFair == Init /\ [][NextTasks]_vars /\ \A p \in Procs : WF_vars(Step(p))

\* =============================================================== properties
Host(ip) == ip[Len(ip)]
FreeSet == {available[i] : i \in DOMAIN available}
Lowest(S) == CHOOSE a \in S : \A b \in S : Host(a) <= Host(b)
Slash24 == {format(network, h) : h \in 0..255}

\* C1: an allocate by an owner that holds no address, made while the free set
\* is non-empty, returns the numerically lowest address of the free set.
C1_AllocateReturnsLowestFree ==
    [][(ret'.op = "allocate" /\ ret'.vm \notin DOMAIN vm_to_ip /\ available # <<>>)
          => (ret'.ok /\ ret'.ip = Lowest(FreeSet))]_vars

\* C2: while an owner's grant stands (allocate returned it an address and
\* neither that owner nor that address was released, nor the pool reset),
\* every allocate by that owner returns the same address and leaves the free
\* list and both maps as they were.
C2_AllocateIdempotent ==
    [][\A o \in DOMAIN granted :
          (ret'.op = "allocate" /\ ret'.vm = o)
              => (ret'.ok /\ ret'.ip = granted[o] /\ UNCHANGED pool)]_vars

\* An owner asked again while another owner held an address too, and got its own.
C2_Witness ==
    \E o \in again :
        /\ ret = OkIp("allocate", o, granted[o])
        /\ \E q \in (DOMAIN granted) \ {o} : granted[q] # granted[o]

\* C3: the free list has no duplicate, shares no address with the allocated
\* addresses, and together with them is exactly the configured range.
C3_FreeAllocatedPartition ==
    /\ \A i, j \in DOMAIN available : available[i] = available[j] => i = j
    /\ FreeSet \cap DOMAIN allocated = {}
    /\ FreeSet \cup DOMAIN allocated = Range

\* Addresses are allocated and a released one sits behind a higher one.
C3_Witness ==
    /\ DOMAIN allocated # {}
    /\ \E i, j \in DOMAIN available : i < j /\ Host(available[i]) > Host(available[j])

\* C4: address->owner and owner->address are inverses of each other.
C4_MapsAreInverses ==
    /\ \A a \in DOMAIN allocated :
          allocated[a] \in DOMAIN vm_to_ip /\ vm_to_ip[allocated[a]] = a
    /\ \A o \in DOMAIN vm_to_ip :
          vm_to_ip[o] \in DOMAIN allocated /\ allocated[vm_to_ip[o]] = o

\* A release by address has just succeeded while two other owners hold addresses.
C4_Witness ==
    /\ ret.op = "release_by_address" /\ ret.ok
    /\ Cardinality(DOMAIN vm_to_ip) >= 2

\* C5: allocate fails with NoAvailableIps exactly when the owner holds no
\* address and the free list is empty; with every address of the pool held,
\* a further owner is refused and a holder still gets its address.
C5_NoAvailableExactlyWhenExhausted ==
    [][ret'.op = "allocate" =>
          /\ (~ret'.ok /\ ret'.err = "NoAvailableIps")
                <=> (ret'.vm \notin DOMAIN vm_to_ip /\ available = <<>>)
          /\ ~ret'.ok => ret'.err = "NoAvailableIps"
          /\ (Cardinality(DOMAIN vm_to_ip) = (end - start) + 1
                /\ ret'.vm \notin DOMAIN vm_to_ip) => ~ret'.ok
          /\ ret'.vm \in DOMAIN vm_to_ip => (ret'.ok /\ ret'.ip = vm_to_ip[ret'.vm])]_vars

\* The pool is exhausted by as many owners as it has addresses and a further
\* owner has just been refused.
C5_Witness ==
    /\ ret.op = "allocate" /\ ~ret.ok /\ ret.err = "NoAvailableIps"
    /\ Cardinality(DOMAIN vm_to_ip) = (end - start) + 1
    /\ ret.vm \notin DOMAIN vm_to_ip

\* C6 as stated: release by address answers InvalidIp for every text that does
\* not parse or is outside the configured host range, and IpNotFound only for
\* an address of the configured range.
C6_InvalidOutsideRange ==
    ret.op = "release_by_address" =>
        /\ (~ParsesAsIpv4(ret.addr) \/ ret.addr \notin Range)
              => (~ret.ok /\ ret.err = "InvalidIp")
        /\ (~ret.ok /\ ret.err = "IpNotFound") => ret.addr \in Range

\* C6 amended: release by address answers InvalidIp exactly for the texts that
\* are no address of the pool's /24 (no IPv4 literal, or not under the network
\* prefix), IpNotFound exactly for the addresses of the /24 that are not
\* allocated (hosts outside the host range such as .0, .1 and .255 included),
\* and succeeds exactly for the allocated addresses.
C6_InvalidOutsidePrefix ==
    [][ret'.op = "release_by_address" =>
          /\ (~ret'.ok /\ ret'.err = "InvalidIp") <=> ret'.addr \notin Slash24
          /\ (~ret'.ok /\ ret'.err = "IpNotFound")
                <=> (ret'.addr \in Slash24 /\ ret'.addr \notin DOMAIN allocated)
          /\ ret'.ok <=> ret'.addr \in DOMAIN allocated]_vars

\* The gateway address was given for release and answered IpNotFound.
C6_Witness ==
    ret = Err("release_by_address", NoVm, gateway, "IpNotFound")

\* C7: a call that returns an error leaves the free list and both maps as
\* they were.
C7_ErrorsLeaveStateUnchanged ==
    [][~ret'.ok => UNCHANGED pool]_vars

\* A release by address of a free address of the range was refused while other
\* addresses are allocated.
C7_Witness ==
    /\ ~ret.ok /\ ret.op = "release_by_address" /\ ret.err = "IpNotFound"
    /\ ret.addr \in Range
    /\ DOMAIN allocated # {}

\* Every task has called allocate and returned, each for an owner of its own,
\* on a pool with at least as many addresses as tasks.
AllAllocatedDistinctOwners ==
    /\ (end - start) + 1 >= NumProcs
    /\ \A p \in Procs : pc[p] = "done" /\ res[p].op = "allocate"
    /\ \A p, q \in Procs : p # q => res[p].vm # res[q].vm

\* C8: when every task has called allocate, each for an owner of its own, on
\* a pool with at least as many addresses as tasks, every call has succeeded,
\* the addresses returned differ pairwise, and the allocated count is the
\* number of tasks, whatever the interleaving was.
C8_ConcurrentAllocationsDistinct ==
    AllAllocatedDistinctOwners =>
        /\ \A p \in Procs : res[p].ok /\ res[p].ip \in Range
        /\ \A p, q \in Procs : p # q => res[p].ip # res[q].ip
        /\ get_stats.allocated = NumProcs

\* All the tasks have allocated, each for its own owner.
C8_Witness ==
    /\ AllAllocatedDistinctOwners
    /\ Cardinality({res[p].ip : p \in Procs}) = NumProcs

\* Every address is in exactly one of free and allocated and the maps agree.
PoolConsistent == C3_FreeAllocatedPartition /\ C4_MapsAreInverses
\* Task p has taken a guard and not yet run a statement under it.
Observing(p) ==
    pc[p] \in {"get_read", "list_read", "stats_read",
               "alloc_check", "rel_lookup", "rba_validate", "clear_allocated"}

\* C9: with the writes of a call taken one per step under the write guard, a
\* state in which an address is in neither or both of free and allocated, or
\* in which the maps disagree, exists only while a writer holds the lock; no
\* reader holds the lock then, no task that has just taken a guard sees such
\* a state, and the counts a get_stats returned add up to the total.
C9_NoIntermediateStateObserved ==
    /\ \A p \in Procs : Observing(p) => PoolConsistent
    /\ ~PoolConsistent => (lock.writer # 0 /\ lock.readers = {})
    /\ \A p \in Procs :
          (pc[p] = "done" /\ res[p].op = "get_stats")
              => res[p].stats.allocated + res[p].stats.available = res[p].stats.total

\* A writer is between two of its writes, the pool inconsistent, while a
\* reader and another writer wait for the lock.
C9_Witness ==
    /\ lock.writer # 0
    /\ ~PoolConsistent
    /\ \E r \in Procs : pc[r] = "wait" /\ call[r].op \in ReadOps
    /\ \E w \in Procs : pc[w] = "wait" /\ call[w].op \in WriteOps

\* C10: a successful allocate by an owner that held nothing moves one address
\* from the available count to the allocated count, a successful release
\* (by owner or by address) moves one back, and total never changes.
C10_StatsCounts ==
    [][/\ get_stats'.total = get_stats.total
       /\ (ret'.op = "allocate" /\ ret'.ok /\ ret'.vm \notin DOMAIN vm_to_ip)
             => /\ get_stats'.available + 1 = get_stats.available
                /\ get_stats'.allocated = get_stats.allocated + 1
       /\ (ret'.op \in {"release", "release_by_address"} /\ ret'.ok)
             => /\ get_stats'.allocated + 1 = get_stats.allocated
                /\ get_stats'.available = get_stats.available + 1]_vars

\* An owner has just released one of two allocated addresses.
C10_Witness ==
    /\ ret.op = "release" /\ ret.ok
    /\ get_stats.allocated = 1
    /\ get_stats.available = get_stats.total - 1

\* C11: release by owner fails with IpNotFound exactly when the owner holds no
\* address; when it succeeds for an owner holding a, afterwards the owner
\* holds nothing, a is in neither map and a is in the free list; and
\* get_allocation for an owner holding a returns a, and IpNotFound otherwise.
C11_ReleaseByOwner ==
    [][/\ ret'.op = "release" =>
             /\ (~ret'.ok /\ ret'.err = "IpNotFound") <=> ret'.vm \notin DOMAIN granted
             /\ ret'.ok <=> ret'.vm \in DOMAIN granted
             /\ ret'.ok =>
                   LET a == granted[ret'.vm] IN
                   /\ ret'.vm \notin DOMAIN vm_to_ip'
                   /\ a \notin DOMAIN allocated'
                   /\ \A o \in DOMAIN vm_to_ip' : vm_to_ip'[o] # a
                   /\ \E i \in DOMAIN available' : available'[i] = a
       /\ ret'.op = "get_allocation" =>
             IF ret'.vm \in DOMAIN granted
             THEN ret'.ok /\ ret'.ip = granted[ret'.vm]
             ELSE ~ret'.ok /\ ret'.err = "IpNotFound"]_vars

\* An owner has released its address and its get_allocation was then refused,
\* while another owner still holds an address.
C11_Witness ==
    /\ ret.op = "get_allocation" /\ ~ret.ok /\ ret.err = "IpNotFound"
    /\ \E i \in DOMAIN available : Host(available[i]) = start /\ i = Len(available)
    /\ DOMAIN vm_to_ip # {}

\* C12: whatever texts are given to release by address, every address of the
\* free list and every address of the two maps is an address of the
\* configured range.
C12_OnlyRangeAddresses ==
    /\ \A i \in DOMAIN available : available[i] \in Range
    /\ DOMAIN allocated \subseteq Range
    /\ \A o \in DOMAIN vm_to_ip : vm_to_ip[o] \in Range

\* The release of an address that carries the prefix but lies above the host
\* range was asked for while addresses are allocated and free.
C12_Witness ==
    /\ ret.op = "release_by_address"
    /\ ret.addr = format(network, end + 1)
    /\ DOMAIN allocated # {}
    /\ available # <<>>

\* C14: a reset leaves both maps empty and the free list holding every
\* address of the range once, in ascending host order, as construction does;
\* the allocate that follows a reset returns the lowest address of the range.
C14_ResetGivesFreshPool ==
    [][/\ ret'.op = "clear" =>
             /\ DOMAIN allocated' = {}
             /\ DOMAIN vm_to_ip' = {}
             /\ Len(available') = (end - start) + 1
             /\ \A i \in DOMAIN available' :
                   available'[i] = <<network[1], network[2], network[3], (start + i) - 1>>
       /\ (ret.op = "clear" /\ ret'.op = "allocate") =>
             (ret'.ok /\ ret'.ip = <<network[1], network[2], network[3], start>>)]_vars

\* The pool has just been reset.
C14_Witness ==
    /\ ret.op = "clear" /\ ret.ok
    /\ DOMAIN allocated = {}
    /\ Len(available) = (end - start) + 1

\* C16: list_allocations returns exactly the current allocations, one entry
\* per owner that holds an address: as many entries as the allocated count,
\* each entry (a, o) with o holding a, and each holder in exactly one entry.
C16_ListIsTheAllocations ==
    ret.op = "list_allocations" =>
        /\ Cardinality(ret.list) = get_stats.allocated
        /\ \A e \in ret.list : e.vm_id \in DOMAIN granted /\ granted[e.vm_id] = e.ip
        /\ \A o \in DOMAIN granted : Cardinality({e \in ret.list : e.vm_id = o}) = 1

\* Two allocations were listed after an address had been released.
C16_Witness ==
    /\ ret.op = "list_allocations"
    /\ Cardinality(ret.list) >= 2
    /\ available # <<>>
    /\ Host(available[Len(available)]) = start

\* Position of address a in the free list v (0: absent).
Pos(v, a) == IF \E i \in DOMAIN v : v[i] = a THEN CHOOSE i \in DOMAIN v : v[i] = a ELSE 0

\* C18: the free list is a FIFO queue.  A new allocation takes the address at
\* the head; a release (by owner or by address) puts the released address at
\* the tail, behind every address that is free at that moment; and no call
\* but a reset changes the order of the addresses that stay free.  So a
\* released address is handed out only after those that were free before it,
\* and addresses released earlier before addresses released later.
C18_FreeListIsFifo ==
    [][/\ (ret'.op = "allocate" /\ ret'.ok /\ ret'.vm \notin DOMAIN granted) =>
             /\ ret'.ip = available[1]
             /\ Pos(available', ret'.ip) = 0
       /\ (ret'.op = "release" /\ ret'.ok) =>
             Pos(available', granted[ret'.vm]) = Len(available) + 1
       /\ (ret'.op = "release_by_address" /\ ret'.ok) =>
             Pos(available', ret'.addr) = Len(available) + 1
       /\ ret'.op # "clear" =>
             \A a, b \in Range :
                 (/\ Pos(available, a) > 0 /\ Pos(available', a) > 0
                  /\ Pos(available, b) > 0 /\ Pos(available', b) > 0
                  /\ Pos(available, a) < Pos(available, b))
                     => Pos(available', a) < Pos(available', b)]_vars

\* An owner new to the pool was given an address while a lower address,
\* released earlier, waits behind in the free list.
C18_Witness ==
    /\ ret.op = "allocate" /\ ret.ok /\ ret.vm \notin again
    /\ \E i \in DOMAIN available : Host(available[i]) < Host(ret.ip)

\* C19: wherever owner o holds address a, release by owner o and release by
\* address a both succeed, and each makes exactly the writes of the other:
\* the same free list, order included, and the same two maps.
C19_ReleasesEquivalent ==
    [][/\ \A o \in DOMAIN granted :
             /\ o \in DOMAIN vm_to_ip
             /\ is_valid_ip(network, granted[o])
             /\ granted[o] \in DOMAIN allocated
       /\ (ret'.op = "release" /\ ret'.ok) =>
             release_ip_by_address_effect(granted[ret'.vm])
       /\ (ret'.op = "release_by_address" /\ ret'.ok) =>
             \E o \in DOMAIN granted :
                 granted[o] = ret'.addr /\ release_ip_effect(o)]_vars

\* An address was released by its text, went behind another free address,
\* and some other owner still holds an address.
C19_Witness ==
    /\ ret.op = "release_by_address" /\ ret.ok
    /\ Len(available) >= 2
    /\ available[Len(available)] = ret.addr
    /\ DOMAIN vm_to_ip # {}

\* Tasks p and q are both inside allocate calls for one owner: each has
\* called and neither has returned.
AllocatingTogether(p, q) ==
    /\ pc[p] \notin {"idle", "done"}
    /\ pc[q] \notin {"idle", "done"}
    /\ call[p].op = "allocate"
    /\ call[q] = call[p]

\* No task has called a release or a reset.
NothingReleased ==
    \A r \in Procs :
        pc[r] # "idle" => call[r].op \notin {"release", "release_by_address", "clear"}

\* Both calls returned the one address, and it is the only address the pool
\* has marked for the owner.
SameAddress(p, q) ==
    /\ res[p].ok /\ res[q].ok
    /\ res[p].ip = res[q].ip
    /\ {a \in DOMAIN allocated : allocated[a] = call[p].vm} = {res[p].ip}
    /\ res[p].ip \notin FreeSet

\* C15: allocate calls for one owner that are in progress at the same time
\* all return the same address, and the pool gives up exactly one address for
\* them (no release or reset being called).
C15_ConcurrentSameOwner ==
    \A p, q \in Procs :
        p < q =>
            [](AllocatingTogether(p, q) =>
                  []((pc[p] = "done" /\ pc[q] = "done" /\ NothingReleased)
                        => SameAddress(p, q)))

\* Every task allocated for the same owner, all were returned the first
\* address, and the pool is short of that address alone.
C15_Witness ==
    /\ \A p \in Procs :
          /\ pc[p] = "done" /\ call[p].op = "allocate" /\ call[p].vm = 1
          /\ res[p].ok /\ res[p].ip = format(network, start)
    /\ DOMAIN allocated = {format(network, start)}
    /\ Len(available) = end - start

\* C17: an allocation read back never carries a hostname, whether the
\* allocate request of the owner supplied one or not: the allocation that
\* get_allocation returns and every allocation that list_allocations returns
\* have hostname None, and the pool's maps hold addresses and owner ids only.
C17_HostnameNeverReported ==
    /\ \A p \in Procs :
          (pc[p] = "done" /\ call[p].op \in {"get_allocation", "list_allocations"}) =>
              /\ \A e \in res[p].list : e.hostname = "None"
              /\ (call[p].op = "get_allocation" /\ res[p].ok) =>
                    \E e \in res[p].list : e.vm_id = call[p].vm /\ e.ip = res[p].ip
    /\ \A a \in DOMAIN allocated : allocated[a] \in TaskVmIds
    /\ \A o \in DOMAIN vm_to_ip : vm_to_ip[o] \in Range

\* An owner allocated with a hostname; its allocation was then read back by
\* get_allocation and by list_allocations.
C17_Witness ==
    \E p, q, r \in Procs :
        /\ pc[p] = "done" /\ pc[q] = "done" /\ pc[r] = "done"
        /\ call[p].op = "allocate" /\ call[p].hostname = "web" /\ res[p].ok
        /\ call[q].op = "get_allocation" /\ call[q].vm = call[p].vm /\ res[q].ok
        /\ res[q].list = {[ip |-> res[p].ip, vm_id |-> call[p].vm, hostname |-> "None"]}
        /\ call[r].op = "list_allocations"
        /\ res[r].list = res[q].list

\* How many times address a occurs in the free list.
Occurrences(a) == Cardinality({i \in DOMAIN available : available[i] = a})

\* Task p is about to release owner o's address by owner id and task q the
\* same address by its text; the owner holds the address, and every other
\* task has returned, so that no allocate runs beside the two releases.
RaceStart(p, q) ==
    /\ pc[p] = "wait" /\ call[p].op = "release"
    /\ pc[q] = "wait" /\ call[q].op = "release_by_address"
    /\ call[p].vm \in DOMAIN vm_to_ip
    /\ vm_to_ip[call[p].vm] = call[q].addr
    /\ call[q].addr \in DOMAIN allocated
    /\ Occurrences(call[q].addr) = 0
    /\ \A r \in Procs \ {p, q} : pc[r] = "done"

\* One of the two releases succeeded and the other found nothing to release;
\* the address is in the free list once and in neither map.
RaceOutcome(p, q) ==
    /\ res[p].ok # res[q].ok
    /\ ~res[p].ok => res[p].err = "IpNotFound"
    /\ ~res[q].ok => res[q].err = "IpNotFound"
    /\ Occurrences(call[q].addr) = 1
    /\ call[q].addr \notin DOMAIN allocated
    /\ call[p].vm \notin DOMAIN vm_to_ip

\* C20: when a release by owner and a release by address of the same active
\* allocation run against each other, with no allocate beside them, exactly
\* one of them succeeds, the other returns IpNotFound, and the address is
\* added to the free list exactly once.
C20_ReleaseRace ==
    \A p, q \in Procs :
        p # q =>
            [](RaceStart(p, q) =>
                  []((pc[p] = "done" /\ pc[q] = "done") => RaceOutcome(p, q)))

\* An owner was given an address, both releases of it have returned, the one
\* by address with success and the one by owner with IpNotFound, and the
\* address is back in the free list once.
C20_Witness ==
    \E p, q, r \in Procs :
        /\ pc[p] = "done" /\ pc[q] = "done" /\ pc[r] = "done"
        /\ call[r].op = "allocate" /\ res[r].ok
        /\ call[p].op = "release" /\ call[p].vm = call[r].vm
        /\ ~res[p].ok /\ res[p].err = "IpNotFound"
        /\ call[q].op = "release_by_address" /\ call[q].addr = res[r].ip
        /\ res[q].ok
        /\ Occurrences(res[r].ip) = 1
        /\ available[Len(available)] = res[r].ip

\* Task p holds no guard of the lock.
HoldsNoGuard(p) == lock.writer # p /\ p \notin lock.readers

\* C13: no call blocks for ever.  Every task that has called and waits for
\* the lock goes on to return, and a task that has returned, with Ok or with
\* an error, holds no guard; a task that has not acquired holds none either.
C13_EveryCallReturns ==
    /\ \A p \in Procs : (pc[p] = "wait") ~> (pc[p] = "done" /\ HoldsNoGuard(p))
    /\ [](\A p \in Procs : pc[p] \in {"idle", "wait", "done"} => HoldsNoGuard(p))

\* Every task has returned, one of them with an error, a writer and a reader
\* among them, and the lock is free.
C13_Witness ==
    /\ \A p \in Procs : pc[p] = "done"
    /\ \E p \in Procs : ~res[p].ok
    /\ \E p \in Procs : call[p].op \in WriteOps /\ res[p].ok
    /\ \E p \in Procs : call[p].op \in ReadOps
    /\ lock = [writer |-> 0, readers |-> {}]

====
